---- MODULE Spec2Model ----
(***************************************************************************)
(* Model of the Stellar example scripts under                              *)
(* research/stellar/examples/python: create-keypair, check-account,        *)
(* fund-account, activate-account, transfer and create-trustline.          *)
(* One behaviour is one process run of one script: the command line is     *)
(* fixed in Init, every step of the script is one action, and the answers  *)
(* of the remote services and of the SDK are chosen nondeterministically.  *)
(***************************************************************************)
EXTENDS Integers, Sequences, FiniteSets, TLC

VARIABLES
  script,       \* which script this process runs
  flags,        \* the named options present on the command line
  asset,        \* value of --asset (a string, as a sequence of characters)
  amountIsInt,  \* whether the value of --amount converts with type=int
  pc,           \* position of the process
  steps,        \* SDK / library calls made so far, with their results
  out,          \* lines printed to standard output
  raised,       \* the exception that ended the run, "none" if none
  exitStatus,   \* exit status of the process, meaningful when pc = "done"
  returned,     \* value returned by the click handler
  assetStr,     \* transfer: local assetStr, <<>> while unassigned
  assetCode,    \* transfer: local asset after line 23 / 28
  issuer,       \* transfer: local issuer
  tx,           \* the transaction object
  res           \* fund-account: the response object

vars == <<script, flags, asset, amountIsInt, pc, steps, out, raised,
          exitStatus, returned, assetStr, assetCode, issuer, tx, res>>

----------------------------------------------------------------------------
(* Bounds and alphabets *)

MaxAssetLen == 3

Chars == {"X", ":"}

Strings(n) == UNION {[1..k -> Chars] : k \in 0..n}

AssetStrings == Strings(MaxAssetLen)

\* Python's None, distinct from every string over Chars
None == <<"None">>

XLM == <<"X", "L", "M">>

HttpStatuses == {200, 204, 304, 400, 404, 500, 503}

----------------------------------------------------------------------------
(* Command lines *)

Scripts == {"create-keypair", "check-account", "fund-account",
            "activate-account", "transfer", "create-trustline"}

TxScripts == {"activate-account", "transfer", "create-trustline"}

Options(s) ==
  CASE s = "check-account"    -> {"address"}
    [] s = "fund-account"     -> {"address"}
    [] s = "activate-account" -> {"sourcekey", "destinationaddress"}
    [] s = "transfer"         -> {"sourcekey", "destinationaddress", "amount", "asset"}
    [] s = "create-trustline" -> {"sourcekey", "issueraddress", "assetcode", "limit"}
    [] OTHER                  -> {}

\* variant: --amount of transfer and --assetcode of create-trustline optional
RequiredLax(s) ==
  CASE s = "check-account"    -> {"address"}
    [] s = "fund-account"     -> {"address"}
    [] s = "activate-account" -> {"sourcekey", "destinationaddress"}
    [] s = "transfer"         -> {"sourcekey", "destinationaddress"}
    [] s = "create-trustline" -> {"sourcekey", "issueraddress"}
    [] OTHER                  -> {}

Required(s) ==
  CASE s = "check-account"    -> {"address"}
    [] s = "fund-account"     -> {"address"}
    [] s = "activate-account" -> {"sourcekey", "destinationaddress"}
    [] s = "transfer"         -> {"sourcekey", "destinationaddress", "amount"}
    [] s = "create-trustline" -> {"sourcekey", "issueraddress", "assetcode"}
    [] OTHER                  -> {}

----------------------------------------------------------------------------
(* Control flow of each script: the statements of the handler in order *)

\* variant: transfer validates --asset before it talks to the network
FlowParseFirst(s) ==
  CASE s = "create-keypair"   -> <<"random">>
    [] s = "check-account"    -> <<"cli", "lookup">>
    [] s = "fund-account"     -> <<"cli", "get">>
    [] s = "activate-account" -> <<"cli", "keypair", "load", "build", "sign", "submit">>
    [] s = "transfer"         -> <<"cli", "keypair", "asset", "load", "fee",
                                   "build", "sign", "xdr", "submit">>
    [] s = "create-trustline" -> <<"cli", "keypair", "load", "fee",
                                   "build", "sign", "xdr", "submit">>

\* variant: create-trustline passes a literal base fee as activate-account does
FlowNoFee(s) ==
  CASE s = "create-keypair"   -> <<"random">>
    [] s = "check-account"    -> <<"cli", "lookup">>
    [] s = "fund-account"     -> <<"cli", "get">>
    [] s = "activate-account" -> <<"cli", "keypair", "load", "build", "sign", "submit">>
    [] s = "transfer"         -> <<"cli", "keypair", "load", "fee", "asset",
                                   "build", "sign", "xdr", "submit">>
    [] s = "create-trustline" -> <<"cli", "keypair", "load",
                                   "build", "sign", "xdr", "submit">>

\* variant: the sign statement is missing from the scripts
FlowNoSign(s) ==
  CASE s = "create-keypair"   -> <<"random">>
    [] s = "check-account"    -> <<"cli", "lookup">>
    [] s = "fund-account"     -> <<"cli", "get">>
    [] s = "activate-account" -> <<"cli", "keypair", "load", "build", "submit">>
    [] s = "transfer"         -> <<"cli", "keypair", "load", "fee", "asset",
                                   "build", "xdr", "submit">>
    [] s = "create-trustline" -> <<"cli", "keypair", "load", "fee",
                                   "build", "xdr", "submit">>

Flow(s) ==
  CASE s = "create-keypair"   -> <<"random">>
    [] s = "check-account"    -> <<"cli", "lookup">>
    [] s = "fund-account"     -> <<"cli", "get">>
    [] s = "activate-account" -> <<"cli", "keypair", "load", "build", "sign", "submit">>
    [] s = "transfer"         -> <<"cli", "keypair", "load", "fee", "asset",
                                   "build", "sign", "xdr", "submit">>
    [] s = "create-trustline" -> <<"cli", "keypair", "load", "fee",
                                   "build", "sign", "xdr", "submit">>

\* the statement after p, "done" when the handler falls off its end
After(s, p) ==
  LET f == Flow(s)
      i == CHOOSE k \in 1..Len(f) : f[k] = p
  IN IF i < Len(f) THEN f[i + 1] ELSE "done"

----------------------------------------------------------------------------
(* Pure helpers *)

\* str.split(':')
RECURSIVE Split(_)
Split(s) ==
  IF \A k \in 1..Len(s) : s[k] # ":"
  THEN <<s>>
  ELSE LET i == CHOOSE k \in 1..Len(s) :
                   /\ s[k] = ":"
                   /\ \A j \in 1..(k - 1) : s[j] # ":"
       IN <<SubSeq(s, 1, i - 1)>> \o Split(SubSeq(s, i + 1, Len(s)))

\* transfer.py line 26
WrongAssetFormat(parts) == Len(parts) # 2

\* variant: the empty default is not special-cased
IsNativeRequestNever(a) == FALSE

\* transfer.py line 22
IsNativeRequest(a) == a = <<>>

\* variant: no except clause
CatchesNothing(s, p, e) == FALSE

\* variant: except Exception
CatchesAll(s, p, e) == s \in TxScripts /\ p = "submit"

\* except BadRequestError around submit_transaction: is e, raised by the
\* statement at p, handled
Catches(s, p, e) == s \in TxScripts /\ p = "submit" /\ e = "BadRequestError"

\* variant: only server errors raise
RaisesForServerError(status) == status >= 500 /\ status < 600

\* requests.Response.raise_for_status
RaisesForStatus(status) == status >= 400 /\ status < 600

\* exit status of the interpreter for a run ended by exception e
ExitCode(e) ==
  CASE e = "none"       -> 0
    [] e = "UsageError" -> 2
    [] OTHER            -> 1

RemoteErrors == {"BadRequestError", "NotFoundError", "ConnectionError"}

RemoteOps == {"load_account", "fetch_base_fee", "submit_transaction",
              "requests.get", "Address.get"}

IsRemote(st) == st.op \in RemoteOps

NetworkCalls == SelectSeq(steps, IsRemote)

Step(o, r) == [op |-> o, result |-> r]

NoTx == [built |-> FALSE, signed |-> FALSE, ops |-> <<>>]

NoRes == [received |-> FALSE, status_code |-> 0, json |-> FALSE]

----------------------------------------------------------------------------
(* Initial states: every command line of every script *)

Init ==
  /\ script \in Scripts
  /\ flags \in SUBSET Options(script)
  /\ asset \in (IF "asset" \in flags THEN AssetStrings ELSE {<<>>})
  /\ amountIsInt \in (IF "amount" \in flags THEN BOOLEAN ELSE {TRUE})
  /\ pc = Head(Flow(script))
  /\ steps = <<>>
  /\ out = <<>>
  /\ raised = "none"
  /\ exitStatus = 0
  /\ returned = "None"
  /\ assetStr = <<>>
  /\ assetCode = None
  /\ issuer = None
  /\ tx = NoTx
  /\ res = NoRes

----------------------------------------------------------------------------
(* Ways a statement ends *)

\* the statement at pc completed; control moves on
Continue ==
  /\ pc' = After(script, pc)
  /\ raised' = raised
  /\ exitStatus' = exitStatus

\* exception e propagates out of the handler
Uncaught(e) ==
  /\ pc' = "done"
  /\ raised' = e
  /\ exitStatus' = ExitCode(e)

----------------------------------------------------------------------------
(* Actions *)

\* click parses the command line before the handler runs
ParseOptions ==
  /\ pc = "cli"
  /\ IF Required(script) \subseteq flags /\ amountIsInt
     THEN Continue
     ELSE Uncaught("UsageError")
  /\ UNCHANGED <<script, flags, asset, amountIsInt, steps, out, returned,
                 assetStr, assetCode, issuer, tx, res>>

\* create-keypair.py
CreateKeypair ==
  /\ pc = "random"
  /\ steps' = Append(steps, Step("Keypair.random", "ok"))
  /\ out' = out \o <<"Key", "Address">>
  /\ Continue
  /\ UNCHANGED <<script, flags, asset, amountIsInt, returned,
                 assetStr, assetCode, issuer, tx, res>>

\* check-account.py
CheckAccount ==
  /\ pc = "lookup"
  /\ \E r \in {"ok"} \cup RemoteErrors :
       /\ steps' = Append(steps, Step("Address.get", r))
       /\ IF r = "ok"
          THEN /\ out' = out \o <<"Balances", "Sequence Number", "Flags",
                                  "Signers", "Data">>
               /\ Continue
          ELSE /\ out' = out
               /\ Uncaught(r)
  /\ UNCHANGED <<script, flags, asset, amountIsInt, returned,
                 assetStr, assetCode, issuer, tx, res>>

\* fund-account.py: try: get, raise_for_status, print / except HTTPError:
\* print(res.json()), sys.exit(1)
FundThroughFriendbot ==
  /\ pc = "get"
  /\ \/ \* requests.get itself fails
        /\ steps' = Append(steps, Step("requests.get", "ConnectionError"))
        /\ out' = out
        /\ res' = res
        /\ Uncaught("ConnectionError")
     \/ \E st \in HttpStatuses, js \in BOOLEAN :
          /\ res' = [received |-> TRUE, status_code |-> st, json |-> js]
          /\ IF RaisesForStatus(st)
             THEN /\ steps' = steps \o <<Step("requests.get", "ok"),
                                         Step("raise_for_status", "HTTPError")>>
                  /\ IF js
                     THEN /\ out' = Append(out, "body")
                          /\ Uncaught("SystemExit")
                     ELSE /\ out' = out
                          /\ Uncaught("JSONDecodeError")
             ELSE /\ steps' = steps \o <<Step("requests.get", "ok"),
                                         Step("raise_for_status", "ok")>>
                  /\ out' = Append(out, "funded")
                  /\ Continue
  /\ UNCHANGED <<script, flags, asset, amountIsInt, returned,
                 assetStr, assetCode, issuer, tx>>

\* Server(...) ; Keypair.from_secret(sourcekey)
KeypairFromSecret ==
  /\ pc = "keypair"
  /\ \E r \in {"ok", "Ed25519SecretSeedInvalidError"} :
       /\ steps' = Append(steps, Step("from_secret", r))
       /\ IF r = "ok" THEN Continue ELSE Uncaught(r)
  /\ UNCHANGED <<script, flags, asset, amountIsInt, out, returned,
                 assetStr, assetCode, issuer, tx, res>>

\* server.load_account(...)
LoadAccount ==
  /\ pc = "load"
  /\ \E r \in {"ok"} \cup RemoteErrors :
       /\ steps' = Append(steps, Step("load_account", r))
       /\ IF r = "ok" THEN Continue ELSE Uncaught(r)
  /\ UNCHANGED <<script, flags, asset, amountIsInt, out, returned,
                 assetStr, assetCode, issuer, tx, res>>

\* server.fetch_base_fee()
FetchBaseFee ==
  /\ pc = "fee"
  /\ \E r \in {"ok"} \cup RemoteErrors :
       /\ steps' = Append(steps, Step("fetch_base_fee", r))
       /\ IF r = "ok" THEN Continue ELSE Uncaught(r)
  /\ UNCHANGED <<script, flags, asset, amountIsInt, out, returned,
                 assetStr, assetCode, issuer, tx, res>>

\* transfer.py lines 20-29
ParseAsset ==
  /\ pc = "asset"
  /\ IF IsNativeRequest(asset)
     THEN /\ assetCode' = XLM
          /\ issuer' = None
          /\ assetStr' = assetStr
          /\ returned' = returned
          /\ Continue
     ELSE /\ assetStr' = Split(asset)
          /\ IF WrongAssetFormat(assetStr')
             THEN /\ returned' = "Exception('Wrong asset format')"
                  /\ assetCode' = assetCode
                  /\ issuer' = None
                  /\ pc' = "done"
                  /\ raised' = raised
                  /\ exitStatus' = exitStatus
             ELSE /\ assetCode' = assetStr'[1]
                  /\ issuer' = assetStr'[2]
                  /\ returned' = returned
                  /\ Continue
  /\ UNCHANGED <<script, flags, asset, amountIsInt, steps, out, tx, res>>

\* the single operation each script appends
Operation(s) ==
  CASE s = "activate-account" ->
         [type |-> "create_account", asset_code |-> None, asset_issuer |-> None]
    [] s = "transfer" ->
         [type |-> "payment", asset_code |-> assetCode, asset_issuer |-> issuer]
    [] s = "create-trustline" ->
         [type |-> "change_trust", asset_code |-> <<"X">>, asset_issuer |-> <<"X">>]

\* TransactionBuilder(...).append_*_op(...).build()
BuildTransaction ==
  /\ pc = "build"
  /\ \E r \in {"ok", "SdkError"} :
       /\ steps' = Append(steps, Step("build", r))
       /\ IF r = "ok"
          THEN /\ tx' = [built |-> TRUE, signed |-> FALSE,
                         ops |-> <<Operation(script)>>]
               /\ Continue
          ELSE /\ tx' = tx
               /\ Uncaught(r)
  /\ UNCHANGED <<script, flags, asset, amountIsInt, out, returned,
                 assetStr, assetCode, issuer, res>>

\* transaction.sign(source_keypair)
SignTransaction ==
  /\ pc = "sign"
  /\ steps' = Append(steps, Step("sign", "ok"))
  /\ tx' = [tx EXCEPT !.signed = TRUE]
  /\ Continue
  /\ UNCHANGED <<script, flags, asset, amountIsInt, out, returned,
                 assetStr, assetCode, issuer, res>>

\* print(transaction.to_xdr())
PrintXdr ==
  /\ pc = "xdr"
  /\ steps' = Append(steps, Step("to_xdr", "ok"))
  /\ out' = Append(out, "xdr")
  /\ Continue
  /\ UNCHANGED <<script, flags, asset, amountIsInt, returned,
                 assetStr, assetCode, issuer, tx, res>>

\* try: server.submit_transaction(transaction) ... except BadRequestError
SubmitTransaction ==
  /\ pc = "submit"
  /\ \E r \in {"ok"} \cup RemoteErrors :
       /\ steps' = Append(steps, Step("submit_transaction", r))
       /\ IF r = "ok"
          THEN /\ out' = out \o <<"Transaction hash", "response">>
               /\ Continue
          ELSE IF Catches(script, pc, r)
               THEN /\ out' = Append(out, "error")
                    /\ Continue
               ELSE /\ out' = out
                    /\ Uncaught(r)
  /\ UNCHANGED <<script, flags, asset, amountIsInt, returned,
                 assetStr, assetCode, issuer, tx, res>>

Next ==
  \/ ParseOptions
  \/ CreateKeypair
  \/ CheckAccount
  \/ FundThroughFriendbot
  \/ KeypairFromSecret
  \/ LoadAccount
  \/ FetchBaseFee
  \/ ParseAsset
  \/ BuildTransaction
  \/ SignTransaction
  \/ PrintXdr
  \/ SubmitTransaction

Spec == Init /\ [][Next]_vars

----------------------------------------------------------------------------
(* Vocabulary of the properties *)

OpNames == [i \in 1..Len(steps) |-> steps[i].op]

NetOpNames == [i \in 1..Len(NetworkCalls) |-> NetworkCalls[i].op]

Called(o) == \E i \in 1..Len(steps) : steps[i].op = o

Answered(o, r) == \E i \in 1..Len(steps) : steps[i] = Step(o, r)

AllOk == \A i \in 1..Len(steps) : steps[i].result = "ok"

Printed(line) == \E i \in 1..Len(out) : out[i] = line

\* the handler of transfer took the 'Wrong asset format' return
AssetRejected == script = "transfer" /\ returned # "None"

\* --asset is non-empty and does not split into exactly two parts
Malformed == asset # <<>> /\ Len(Split(asset)) # 2

\* --asset is code:issuer with both parts non-empty
TwoNonEmptyParts ==
  /\ Len(Split(asset)) = 2
  /\ Split(asset)[1] # <<>>
  /\ Split(asset)[2] # <<>>

\* the run got as far as its dispatch call
Dispatched ==
  \/ Called("submit_transaction")
  \/ Called("requests.get")
  \/ Called("Address.get")

----------------------------------------------------------------------------
(* C1 *)

\* C1 (as stated): when transfer rejects a malformed --asset value, no
\* network call has been made in the run.
C1_RejectedBeforeAnyNetworkCall ==
  AssetRejected => NetworkCalls = <<>>

\* C1 (amended): when transfer rejects a malformed --asset value, load_account
\* and fetch_base_fee have both been called and answered, nothing else has
\* gone to the network, and no transaction has been built or submitted.
C1_RejectedAfterReadsBeforeBuild ==
  AssetRejected =>
    /\ Malformed
    /\ NetOpNames = <<"load_account", "fetch_base_fee">>
    /\ AllOk
    /\ tx = NoTx
    /\ ~Called("submit_transaction")

C1_Witness ==
  /\ AssetRejected
  /\ pc = "done"
  /\ Len(Split(asset)) = 3

----------------------------------------------------------------------------
(* C2 *)

----------------------------------------------------------------------------
(* C3 *)

\* C3 (as stated): a finished run that reached its dispatch step made
\* exactly one remote call.
C3_ExactlyOneNetworkCall ==
  (pc = "done" /\ Dispatched) => Len(NetworkCalls) = 1

\* C3 (amended): a finished run that reached its dispatch step made exactly
\* one dispatch call, as its last remote call: check-account and
\* fund-account made that call only, activate-account made load_account
\* before it, transfer and create-trustline made load_account and
\* fetch_base_fee before it.
C3_NetworkCallsPerScript ==
  (pc = "done" /\ Dispatched) =>
    NetOpNames =
      CASE script = "check-account"    -> <<"Address.get">>
        [] script = "fund-account"     -> <<"requests.get">>
        [] script = "activate-account" -> <<"load_account", "submit_transaction">>
        [] script = "transfer"         -> <<"load_account", "fetch_base_fee",
                                            "submit_transaction">>
        [] script = "create-trustline" -> <<"load_account", "fetch_base_fee",
                                            "submit_transaction">>
        [] OTHER                       -> <<>>

C3_Witness ==
  /\ pc = "done"
  /\ script = "create-trustline"
  /\ Answered("submit_transaction", "ok")

----------------------------------------------------------------------------
(* C4 *)

\* the remote operation of the run succeeded
Succeeded ==
  CASE script \in TxScripts      -> Answered("submit_transaction", "ok")
    [] script = "check-account"  -> Answered("Address.get", "ok")
    [] script = "fund-account"   -> /\ res.received
                                    /\ res.status_code >= 200
                                    /\ res.status_code < 300
    [] OTHER                     -> Answered("Keypair.random", "ok")

\* the faucet answered 4xx or 5xx
FaucetError ==
  /\ script = "fund-account"
  /\ res.received
  /\ res.status_code >= 400
  /\ res.status_code < 600

\* the except clause of fund-account ran to its sys.exit(1)
FaucetErrorHandled == FaucetError /\ res.json

\* submit_transaction was answered with a bad-request rejection
SubmitRejected ==
  script \in TxScripts /\ Answered("submit_transaction", "BadRequestError")

\* transfer got through both reads with a malformed --asset
MalformedAssetReached ==
  /\ script = "transfer"
  /\ Malformed
  /\ Answered("fetch_base_fee", "ok")

\* C4 (as stated): a finished run exits 0 when the remote operation
\* succeeded, 1 when the faucet script handled an HTTP error, and non-zero
\* in every other outcome.
C4_ExitZeroOnlyOnSuccess ==
  pc = "done" =>
    /\ Succeeded => exitStatus = 0
    /\ FaucetErrorHandled => exitStatus = 1
    /\ ~Succeeded => exitStatus # 0

\* C4 (amended): a finished run exits 0 exactly when its handler returned:
\* the remote operation succeeded, or the faucet answered with a status
\* that is not 4xx/5xx, or submit_transaction was rejected with a
\* bad-request error, or transfer returned on a malformed --asset; it exits
\* 1 when the faucet script handled an HTTP error, and non-zero otherwise.
C4_ExitZeroWhenHandlerReturns ==
  pc = "done" =>
    /\ exitStatus = 0 <=>
         \/ Succeeded
         \/ script = "fund-account" /\ res.received /\ ~FaucetError
         \/ SubmitRejected
         \/ MalformedAssetReached
    /\ FaucetErrorHandled => exitStatus = 1

C4_Witness ==
  /\ pc = "done"
  /\ SubmitRejected
  /\ exitStatus = 0

----------------------------------------------------------------------------
(* C5 *)

\* C5 (as stated): in fund-account a response whose status is not 2xx makes
\* the script print the body, not print the success message and exit 1; the
\* success message is printed only for a 2xx status.
C5_Non2xxPrintsBodyExitsOne ==
  (script = "fund-account" /\ pc = "done" /\ res.received) =>
    /\ ~(res.status_code >= 200 /\ res.status_code < 300) =>
         /\ Printed("body")
         /\ ~Printed("funded")
         /\ exitStatus = 1
    /\ Printed("funded") => (res.status_code >= 200 /\ res.status_code < 300)

\* C5 (amended): in fund-account a response whose status is 4xx or 5xx makes
\* the script not print the success message and exit 1, printing the body
\* when it decodes as JSON; the success message is printed exactly when a
\* response arrived whose status is not 4xx or 5xx.
C5_HttpErrorExitsOne ==
  (script = "fund-account" /\ pc = "done") =>
    /\ FaucetError =>
         /\ ~Printed("funded")
         /\ exitStatus = 1
         /\ res.json <=> Printed("body")
    /\ Printed("funded") <=> (res.received /\ ~FaucetError)

C5_Witness ==
  /\ script = "fund-account"
  /\ pc = "done"
  /\ res.status_code = 404
  /\ Printed("body")
  /\ exitStatus = 1

----------------------------------------------------------------------------
(* C6 *)

\* C6: in transfer an omitted or empty --asset never enters the splitting
\* branch and yields a payment in the native asset (code XLM, issuer None);
\* the issuer is not None only when a two-part asset string was given.
C6_NativeAssetDefault ==
  script = "transfer" =>
    /\ asset = <<>> => assetStr = <<>>
    /\ (asset = <<>> /\ tx.built) =>
         tx.ops = <<[type |-> "payment", asset_code |-> XLM,
                     asset_issuer |-> None]>>
    /\ issuer # None => (asset # <<>> /\ Len(Split(asset)) = 2)
    /\ (tx.built /\ tx.ops[1].asset_issuer # None) =>
         (asset # <<>> /\ Len(Split(asset)) = 2)

C6_Witness ==
  /\ script = "transfer"
  /\ asset = <<>>
  /\ tx.built
  /\ Answered("submit_transaction", "ok")

----------------------------------------------------------------------------
(* C7 *)

\* some call of the run raised e
Raised(e) == \E i \in 1..Len(steps) : steps[i].result = e

\* C7 (as stated): in the transaction scripts a bad-request rejection is
\* caught and printed at whichever remote call raises it.
C7_BadRequestCaughtAnywhere ==
  (script \in TxScripts /\ pc = "done" /\ Raised("BadRequestError")) =>
    /\ Printed("error")
    /\ raised = "none"

\* C7 (amended): in the transaction scripts a bad-request rejection raised
\* by submit_transaction is caught and printed and the run exits 0; raised
\* by load_account or fetch_base_fee it propagates uncaught, as does every
\* other exception of the run, and the process ends with a non-zero status.
C7_BadRequestCaughtAtSubmitOnly ==
  (script \in TxScripts /\ pc = "done") =>
    /\ Answered("submit_transaction", "BadRequestError") =>
         /\ Printed("error")
         /\ raised = "none"
         /\ exitStatus = 0
    /\ \A i \in 1..Len(steps) :
         (/\ steps[i].result # "ok"
          /\ steps[i] # Step("submit_transaction", "BadRequestError")) =>
           /\ raised = steps[i].result
           /\ exitStatus # 0
           /\ ~Printed("error")
           /\ i = Len(steps)

C7_Witness ==
  /\ script \in TxScripts
  /\ pc = "done"
  /\ Answered("load_account", "BadRequestError")
  /\ raised = "BadRequestError"

----------------------------------------------------------------------------
(* C8 *)

\* a required option of the script is absent from the command line
RequiredFlagMissing ==
  \/ script \in {"check-account", "fund-account"} /\ "address" \notin flags
  \/ script \in TxScripts /\ "sourcekey" \notin flags
  \/ script \in {"activate-account", "transfer"}
       /\ "destinationaddress" \notin flags
  \/ script = "transfer" /\ "amount" \notin flags
  \/ script = "create-trustline"
       /\ ({"issueraddress", "assetcode"} \ flags) # {}

\* C8: a run of a flag-taking script with a required flag missing never
\* runs the handler body (no SDK call, no network call, no output) and
\* ends with a non-zero status.
C8_MissingRequiredFlag ==
  RequiredFlagMissing =>
    /\ steps = <<>>
    /\ out = <<>>
    /\ pc \in {"cli", "done"}
    /\ pc = "done" => exitStatus # 0

C8_Witness ==
  /\ RequiredFlagMissing
  /\ pc = "done"
  /\ script = "transfer"
  /\ "amount" \notin flags

----------------------------------------------------------------------------
(* C9 *)

\* C9: a run of transfer that rejects the asset string prints an error
\* message or ends with a raised error.
C9_MalformedAssetReported ==
  (AssetRejected /\ pc = "done") => (out # <<>> \/ raised # "none")

----------------------------------------------------------------------------
(* C10 *)

\* positions in steps of the calls named o
At(o) == {i \in 1..Len(steps) : steps[i].op = o}

\* C10: in the transaction scripts submit_transaction is called at most
\* once, as the last call of the run, after load_account, build and sign in
\* that order, on a signed transaction holding exactly one operation.
C10_LoadBuildSignSubmitOnce ==
  script \in TxScripts =>
    /\ Cardinality(At("submit_transaction")) <= 1
    /\ \A i \in At("submit_transaction") :
         /\ i = Len(steps)
         /\ tx.built
         /\ tx.signed
         /\ Len(tx.ops) = 1
         /\ \E l, b, g \in 1..(i - 1) :
              /\ l < b
              /\ b < g
              /\ steps[l] = Step("load_account", "ok")
              /\ steps[b] = Step("build", "ok")
              /\ steps[g] = Step("sign", "ok")
    /\ tx.signed => tx.built
    /\ Len(tx.ops) <= 1

C10_Witness ==
  /\ script = "activate-account"
  /\ pc = "done"
  /\ Answered("submit_transaction", "ConnectionError")

====
